---- MODULE Spec2Model ----
(***************************************************************************)
(* Model of src/simulator/simulator.py: the logistics event simulator.     *)
(*                                                                         *)
(* Representation of values                                                *)
(*   datetime / timedelta : [s |-> seconds, us |-> 0..999999]  (normalised *)
(*       the way Python normalises them; seconds are counted from the      *)
(*       midnight that precedes SIMULATION_START_DATE)                     *)
(*   isoformat string     : [date, time, us, suffix]; suffix is "" or "Z"  *)
(*   speeds, temperatures : tenths (the code rounds them to 1 decimal)     *)
(*   fuel, co2            : hundredths (the code rounds them to 2)         *)
(*   km_per_liter         : twentieths (WEIGHT_PENALTY 0.05 is one)        *)
(*   random               : the variable rnd holds the draws the random    *)
(*       module will hand out to the next calls                            *)
(*                                                                         *)
(* Floating point.  Every float expression of the source was compared, for *)
(* all 351 distances, 16 weights and 3 traffic conditions, with the exact  *)
(* rational value rounded to the same resolution: they agree except where  *)
(* the exact value lies half way between two neighbours, and there the     *)
(* float result is one of the two neighbours.  RoundFloat models this: a   *)
(* tie is resolved by a bit of rnd.tie, any other value goes to nearest.   *)
(***************************************************************************)
EXTENDS Integers, Sequences, FiniteSets, TLC

VARIABLES
    pc,                      \* position of the running code
    current_simulated_time,  \* module global, line 26
    utcnow,                  \* the wall clock datetime.utcnow() reads
    rnd,                     \* draws of the random module for the next calls
    sim_time,                \* argument of generate_fleet_event
    fleet_event,             \* result of generate_fleet_event
    truck_events,            \* first result of generate_truck_events
    actual_delivery_time,    \* second result of generate_truck_events
    fleet_update,            \* result of generate_fleet_update_event
    payloads,                \* argument of send_to_eventhub
    max_size,                \* size limit of the batches a producer creates
    sent,                    \* batches given to producer.send_batch, in order
    raised,                  \* exception that left the code, or "none"
    tick,                    \* number of the loop iteration of main
    published                \* send_to_eventhub calls of main, in order

vars == <<pc, current_simulated_time, utcnow, rnd, sim_time, fleet_event,
          truck_events, actual_delivery_time, fleet_update, payloads,
          max_size, sent, raised, tick, published>>

None == [none |-> TRUE]

\* ------------------------------------------------------------ constants
BASE_KM_PER_LITER_X20 == 70
WEIGHT_PENALTY_X20 == 1
AVG_SPEED == 60
CO2_PER_LITER_X100 == 268
ANOMALY_CHANCE_PCT == 15
LOOKBACK_DAYS == 30
TAMIL_NADU_LOCATIONS ==
    << "Tirunelveli", "Chennai", "Coimbatore", "Madurai", "Tiruchirappalli",
       "Salem", "Thoothukudi", "Kanyakumari", "Nagercoil", "Vellore" >>
\* speed multiplier, in percent
TRAFFIC_CONDITIONS == [Low |-> 100, Medium |-> 85, High |-> 70]
TrafficKeys == {"Low", "Medium", "High"}
CARGO_TYPES == {"Textiles", "Electronics", "Automotive Parts", "Agricultural Produce"}
DELIVERY_NO_MIN == 1000
DELIVERY_NO_MAX == 9999
TRUCK_ID_MIN == 1
TRUCK_ID_MAX == 50
DRIVER_ID_MIN == 200
DRIVER_ID_MAX == 300
CUSTOMER_NO_MIN == 100
CUSTOMER_NO_MAX == 150
TRIP_DISTANCE_MIN == 50
TRIP_DISTANCE_MAX == 400
CARGO_WEIGHT_MIN == 5
CARGO_WEIGHT_MAX == 20
MIN_KM_PER_LITER_X20 == 30
HIGH_TRAFFIC_PENALTY_X20 == 20
SAMPLE_INTERVAL_KM == 25
MIN_EVENTS == 2
GAUSS_SIGMA == 10
BASE_TEMP_X10 == 850
WEIGHT_TEMP_X10 == 3
HIGH_TRAFFIC_TEMP_X10 == 50
TEMP_NOISE == 2
SPEEDING_MIN == 20
SPEEDING_MAX == 40
HIGH_TEMP_MIN == 105
HIGH_TEMP_MAX == 115
ADJUSTMENT_MINUTES == 30
TIME_JUMP_MIN == 30
TIME_JUMP_MAX == 300
SLEEP_SECONDS == 5

\* ------------------------------------------------- datetime, timedelta
Normalize(s, us) == [s |-> s + (us \div 1000000), us |-> us % 1000000]
DtAdd(t, d) == Normalize(t.s + d.s, t.us + d.us)
DtSub(a, b) == Normalize(a.s - b.s, a.us - b.us)
\* faulty variant: actual_delivery_time < planned_delivery_time
DtLeStrict(a, b) == a.s < b.s \/ (a.s = b.s /\ a.us < b.us)
DtLe(a, b) == a.s < b.s \/ (a.s = b.s /\ a.us <= b.us)
DtLt(a, b) == a.s < b.s \/ (a.s = b.s /\ a.us < b.us)
Minutes(m) == [s |-> 60 * m, us |-> 0]

\* num/den rounded to the nearest integer, a tie to the even neighbour
RoundHalfEven(num, den) ==
    LET q == num \div den
        r == num % den
    IN  IF 2 * r < den THEN q
        ELSE IF 2 * r > den THEN q + 1
        ELSE IF q % 2 = 0 THEN q ELSE q + 1

\* a float expression of exact value num/den, rounded by the code
RoundFloat(num, den, up) ==
    LET q == num \div den
        r == num % den
    IN  IF 2 * r < den THEN q
        ELSE IF 2 * r > den THEN q + 1
        ELSE IF up THEN q + 1 ELSE q

\* timedelta(hours = km / (speed_x10 / 10))
TimedeltaHours(km, speed_x10) ==
    LET secs == km * 36000
    IN  Normalize(secs \div speed_x10,
                  RoundHalfEven((secs % speed_x10) * 1000000, speed_x10))

\* timedelta(seconds = (k / n) * d.total_seconds())
TimedeltaFraction(k, n, d, up) ==
    LET whole == k * d.s
    IN  Normalize(whole \div n,
                  RoundFloat((whole % n) * 1000000 + k * d.us, n, up))

Isoformat(t) ==
    [date |-> t.s \div 86400, time |-> t.s % 86400, us |-> t.us, suffix |-> ""]
AppendZ(str) == [str EXCEPT !.suffix = "Z"]
ReplaceZ(str) == [str EXCEPT !.suffix = ""]
FromIsoformat(str) ==
    IF str.suffix = ""
    THEN [s |-> str.date * 86400 + str.time, us |-> str.us]
    ELSE [error |-> "ValueError"]
DateIsoformat(t) == [date |-> t.s \div 86400]

\* ------------------------------------------------------------ generators
\* faulty variant: the traffic multiplier is left out
EffectiveSpeedIgnoresTraffic(traffic) == AVG_SPEED * 10
EffectiveSpeedX10(traffic) == (AVG_SPEED * TRAFFIC_CONDITIONS[traffic]) \div 10

SampleLocations(r) ==
    <<TAMIL_NADU_LOCATIONS[r.locations[1]], TAMIL_NADU_LOCATIONS[r.locations[2]]>>

generate_fleet_event(t, r) ==
    LET now == t
        locs == SampleLocations(r)
        effective_speed == EffectiveSpeedX10(r.traffic)
        delivery_time == DtAdd(now, TimedeltaHours(r.trip_distance_km, effective_speed))
    IN  [ delivery_id |-> <<"D", r.delivery_no>>,
          truck_id |-> r.truck_id,
          driver_id |-> r.driver_id,
          customer_id |-> <<"CUST", r.customer_no>>,
          pickup_time |-> AppendZ(Isoformat(now)),
          delivery_time |-> AppendZ(Isoformat(delivery_time)),
          trip_distance_km |-> r.trip_distance_km,
          cargo_weight_ton |-> r.cargo_weight_ton,
          cargo_type |-> r.cargo_type,
          delivery_status |-> "Scheduled",
          pickup_location |-> locs[1],
          delivery_location |-> locs[2],
          traffic_condition |-> r.traffic,
          event_type |-> "FleetEvent",
          event_date |-> DateIsoformat(now) ]

generate_fleet_update_event(original_event, actual) ==
    LET planned_delivery_time == FromIsoformat(ReplaceZ(original_event.delivery_time))
        status == IF DtLe(actual, planned_delivery_time) THEN "Completed" ELSE "Delayed"
    IN  [ delivery_id |-> original_event.delivery_id,
          truck_id |-> original_event.truck_id,
          delivery_status |-> status,
          actual_delivery_time |-> AppendZ(Isoformat(actual)),
          event_type |-> "FleetUpdateEvent",
          event_date |-> DateIsoformat(actual) ]

RandInt(lo, hi, raw) == lo + (raw % (hi - lo + 1))
Max(a, b) == IF a >= b THEN a ELSE b

\* the entry of rnd.tie that resolves the k-th float tie of a call
TieUp(r, k) == r.tie[(k % Len(r.tie)) + 1]

\* faulty variant: no penalty for high traffic
KmPerLiterIgnoresTraffic(cargo_weight, traffic) ==
    Max(BASE_KM_PER_LITER_X20 - cargo_weight * WEIGHT_PENALTY_X20, MIN_KM_PER_LITER_X20)

KmPerLiterX20(cargo_weight, traffic) ==
    Max(BASE_KM_PER_LITER_X20 - cargo_weight * WEIGHT_PENALTY_X20
            - (IF traffic = "High" THEN HIGH_TRAFFIC_PENALTY_X20 ELSE 0),
        MIN_KM_PER_LITER_X20)

NumEvents(trip_distance) == Max(MIN_EVENTS, trip_distance \div SAMPLE_INTERVAL_KM)

\* random.random() < ANOMALY_CHANCE, the draw given in percent
HasAnomaly(r) == r.anomaly_roll < ANOMALY_CHANCE_PCT

\* faulty variant: random.randint(0, num_events - 1)
AnomalyPointFromZero(r, num_events) ==
    IF num_events > 1 THEN RandInt(0, num_events - 1, r.anomaly_point) ELSE 0

AnomalyPoint(r, num_events) ==
    IF num_events > 1 THEN RandInt(1, num_events - 1, r.anomaly_point) ELSE 0

\* round(random.uniform(lo, hi), 1) in tenths, random() being u / steps
UniformX10(lo_x10, hi_x10, u, steps) == lo_x10 + ((hi_x10 - lo_x10) * u) \div steps

\* round(random.gauss(mu, GAUSS_SIGMA), 1) in tenths; r.gauss lists deviates in
\* tenths of sigma, sample i takes the next one
GaussX10(mu_x10, r, i) == mu_x10 + GAUSS_SIGMA * r.gauss[(i % Len(r.gauss)) + 1]

\* round(random.uniform(-TEMP_NOISE, TEMP_NOISE), 1) in tenths for sample i
TempNoiseX10(r, i) == r.temp_noise[(i % Len(r.temp_noise)) + 1]

\* faulty variant: progress = i / num_events
ProgressFromZero(i, num_events) == <<i, num_events>>

\* progress = (i + 1) / num_events, as numerator and denominator
Progress(i, num_events) == <<i + 1, num_events>>

\* one iteration of the loop of generate_truck_events, lines 83-99
Telemetry(delivery, r, i) ==
    LET truck_id == delivery.truck_id
        trip_distance == delivery.trip_distance_km
        cargo_weight == delivery.cargo_weight_ton
        traffic == delivery.traffic_condition
        effective_speed == EffectiveSpeedX10(traffic)
        km_per_liter == KmPerLiterX20(cargo_weight, traffic)
        num_events == NumEvents(trip_distance)
        pickup == FromIsoformat(ReplaceZ(delivery.pickup_time))
        drop == FromIsoformat(ReplaceZ(delivery.delivery_time))
        duration == DtSub(drop, pickup)
        has_anomaly == HasAnomaly(r)
        anomaly_type == r.anomaly_type
        anomaly_point == AnomalyPoint(r, num_events)
        progress == Progress(i, num_events)
        timestamp == DtAdd(pickup, TimedeltaFraction(progress[1], progress[2], duration, TieUp(r, i)))
        telemetry ==
            [ delivery_id |-> delivery.delivery_id,
              truck_id |-> truck_id,
              speed |-> GaussX10(effective_speed, r, i),
              fuel_used |-> RoundFloat(20 * 100 * trip_distance * progress[1],
                                       km_per_liter * progress[2], TieUp(r, i + 1)),
              co2_emitted |-> RoundFloat(20 * CO2_PER_LITER_X100 * trip_distance * progress[1],
                                         km_per_liter * progress[2], TieUp(r, i + 2)),
              engine_temp |-> BASE_TEMP_X10 + cargo_weight * WEIGHT_TEMP_X10
                                + (IF traffic = "High" THEN HIGH_TRAFFIC_TEMP_X10 ELSE 0)
                                + TempNoiseX10(r, i),
              alert_type |-> "None",
              traffic_condition |-> traffic,
              event_type |-> "TruckTelemetry",
              event_date |-> DateIsoformat(timestamp),
              EventTimestamp |-> AppendZ(Isoformat(timestamp)) ]
    IN  IF has_anomaly /\ i = anomaly_point
        THEN IF anomaly_type = "Speeding"
             THEN [telemetry EXCEPT
                     !.speed = UniformX10(effective_speed + 10 * SPEEDING_MIN,
                                          effective_speed + 10 * SPEEDING_MAX,
                                          r.uniform, r.uniform_steps),
                     !.alert_type = "Speeding"]
             ELSE IF anomaly_type = "HighEngineTemp"
             THEN [telemetry EXCEPT
                     !.engine_temp = UniformX10(10 * HIGH_TEMP_MIN, 10 * HIGH_TEMP_MAX,
                                                r.uniform, r.uniform_steps),
                     !.alert_type = "HighEngineTemp"]
             ELSE telemetry
        ELSE telemetry

generate_truck_events(delivery, r) ==
    LET num_events == NumEvents(delivery.trip_distance_km)
        events == [k \in 1..num_events |-> Telemetry(delivery, r, k - 1)]
        timestamp == FromIsoformat(ReplaceZ(events[num_events].EventTimestamp))
        random_adjustment_minutes == r.adjustment
    IN  [ events |-> events,
          actual_delivery_time |-> DtAdd(timestamp, Minutes(random_adjustment_minutes)) ]

\* ------------------------------------------------------------- publisher
\* size of EventData(json.dumps(p)), counted in fields of the payload
EventDataSize(p) == Cardinality(DOMAIN p)

\* producer.create_batch()
CreateBatch == [events |-> <<>>, size |-> 0]
\* batch.add(e) raises ValueError when e does not fit in what is left
Fits(batch, p, limit) == batch.size + EventDataSize(p) <= limit
BatchAdd(batch, p) ==
    [events |-> Append(batch.events, p), size |-> batch.size + EventDataSize(p)]

RECURSIVE SendLoopLosesPayload(_, _, _, _, _)
\* faulty variant: the payload that did not fit is not added to the new batch
SendLoopLosesPayload(ps, i, batch, out, limit) ==
    IF i > Len(ps)
    THEN [ sent |-> IF Len(batch.events) > 0 THEN Append(out, batch.events) ELSE out,
           raised |-> "none" ]
    ELSE IF Fits(batch, ps[i], limit)
    THEN SendLoopLosesPayload(ps, i + 1, BatchAdd(batch, ps[i]), out, limit)
    ELSE SendLoopLosesPayload(ps, i + 1, CreateBatch, Append(out, batch.events), limit)

RECURSIVE SendLoop(_, _, _, _, _)
\* the loop of send_to_eventhub from payload i on, lines 108-114
SendLoop(ps, i, batch, out, limit) ==
    IF i > Len(ps)
    THEN [ sent |-> IF Len(batch.events) > 0 THEN Append(out, batch.events) ELSE out,
           raised |-> "none" ]
    ELSE IF Fits(batch, ps[i], limit)
    THEN SendLoop(ps, i + 1, BatchAdd(batch, ps[i]), out, limit)
    ELSE IF Fits(CreateBatch, ps[i], limit)
    THEN SendLoop(ps, i + 1, BatchAdd(CreateBatch, ps[i]), Append(out, batch.events), limit)
    ELSE [ sent |-> Append(out, batch.events), raised |-> "ValueError" ]

send_to_eventhub(ps, limit) ==
    IF ps = <<>>
    THEN [sent |-> <<>>, raised |-> "none"]
    ELSE SendLoop(ps, 1, CreateBatch, <<>>, limit)

\* ------------------------------------------------------------- the draws
\* bounds of the model
DistResidues == 2
UniformSteps == 2
MaxTicks == 3
MaxBacklog == 1
MaxPayloads == 4
MaxBatchLimit == 5

\* module global, line 25: utcnow() at import less 30 days.  The import is
\* taken to happen at 23:53:20.999999 of its day.
ImportTime == [s |-> LOOKBACK_DAYS * 86400 + 86000, us |-> 999999]
SIMULATION_START_DATE == DtSub(ImportTime, [s |-> LOOKBACK_DAYS * 86400, us |-> 0])

LocationPairs ==
    {p \in (1..Len(TAMIL_NADU_LOCATIONS)) \X (1..Len(TAMIL_NADU_LOCATIONS)) : p[1] # p[2]}

\* distances at, just above and just below the multiples of the sample interval
TripDistances ==
    {d \in TRIP_DISTANCE_MIN..TRIP_DISTANCE_MAX :
        \/ d % SAMPLE_INTERVAL_KM < DistResidues
        \/ d % SAMPLE_INTERVAL_KM = SAMPLE_INTERVAL_KM - 1}

IdDraws ==
    { [delivery_no |-> DELIVERY_NO_MIN, truck_id |-> TRUCK_ID_MIN, driver_id |-> DRIVER_ID_MIN,
       customer_no |-> CUSTOMER_NO_MIN, cargo_type |-> "Textiles"],
      [delivery_no |-> DELIVERY_NO_MAX, truck_id |-> TRUCK_ID_MAX, driver_id |-> DRIVER_ID_MAX,
       customer_no |-> CUSTOMER_NO_MAX, cargo_type |-> "Agricultural Produce"] }

RouteDraws(distances, weights, pairs) ==
    [trip_distance_km : distances, cargo_weight_ton : weights,
     locations : pairs, traffic : TrafficKeys]

\* deviates of random.gauss in tenths of sigma, noise of the engine temperature in tenths
GaussTape == <<0, -31, 17, 30, -8>>
TempTape == <<0, -10 * TEMP_NOISE, 7, 10 * TEMP_NOISE>>
TieTapes == {<<FALSE>>, <<TRUE>>, <<TRUE, FALSE>>}

\* draws of a call that injects no anomaly
QuietDraws ==
    [anomaly_roll : {ANOMALY_CHANCE_PCT}, anomaly_type : {"Speeding"}, anomaly_point : {0},
     uniform : {0}, uniform_steps : {UniformSteps}, gauss : {GaussTape},
     temp_noise : {TempTape}, tie : {<<FALSE>>}, adjustment : {0},
     time_jump : {TIME_JUMP_MIN}]
\* draws of a call that injects one, at any of `points` places
AnomalyDraws(points) ==
    [anomaly_roll : {ANOMALY_CHANCE_PCT - 1}, anomaly_type : {"Speeding", "HighEngineTemp"},
     anomaly_point : 0..(points - 1),
     uniform : 0..UniformSteps, uniform_steps : {UniformSteps}, gauss : {GaussTape},
     temp_noise : {TempTape}, tie : {<<FALSE>>}, adjustment : {0},
     time_jump : {TIME_JUMP_MIN}]

Quiet == CHOOSE q \in QuietDraws : TRUE

\* ------------------------------------------- generate_fleet_event alone
FleetInputs ==
    {i @@ r @@ Quiet :
        i \in IdDraws,
        r \in RouteDraws(TripDistances, {CARGO_WEIGHT_MIN, CARGO_WEIGHT_MAX}, LocationPairs)}
SimTimes ==
    { SIMULATION_START_DATE,
      DtAdd(SIMULATION_START_DATE, [s |-> 60 * TIME_JUMP_MAX, us |-> 1]) }

InitFleet ==
    /\ pc = "call"
    /\ sim_time \in SimTimes
    /\ rnd \in FleetInputs
    /\ current_simulated_time = None /\ utcnow = None
    /\ fleet_event = None /\ truck_events = <<>> /\ actual_delivery_time = None
    /\ fleet_update = None /\ payloads = <<>> /\ max_size = 0 /\ sent = <<>>
    /\ raised = "none" /\ tick = 0 /\ published = <<>>

CallFleet ==
    /\ pc = "call"
    /\ fleet_event' = generate_fleet_event(sim_time, rnd)
    /\ pc' = "returned"
    /\ UNCHANGED <<current_simulated_time, utcnow, rnd, sim_time, truck_events,
                   actual_delivery_time, fleet_update, payloads, max_size, sent,
                   raised, tick, published>>

SpecFleet == InitFleet /\ [][CallFleet]_vars

Abs(x) == IF x >= 0 THEN x ELSE -x
Parse(str) == FromIsoformat(ReplaceZ(str))

\* C4: every Delivery generate_fleet_event returns has two different locations of
\* the fixed set, a planned delivery_time later than its pickup_time and equal (to
\* the microsecond a datetime holds) to pickup_time + trip_distance_km /
\* (60 * traffic multiplier) hours, trip_distance_km in 50..400, cargo_weight_ton
\* in 5..20 and delivery_status Scheduled; its pickup_time is the simulated time.
C4_Delivery ==
    pc = "returned" =>
        LET e == fleet_event
            pickup == Parse(e.pickup_time)
            planned == Parse(e.delivery_time)
            dur == DtSub(planned, pickup)
            pct == TRAFFIC_CONDITIONS[e.traffic_condition]
            \* the trip takes km * 6000 / pct seconds; left, in units of 1/pct second
            left == e.trip_distance_km * 6000 - dur.s * pct
        IN  /\ e.pickup_location # e.delivery_location
            /\ \E a, b \in 1..Len(TAMIL_NADU_LOCATIONS) :
                  /\ e.pickup_location = TAMIL_NADU_LOCATIONS[a]
                  /\ e.delivery_location = TAMIL_NADU_LOCATIONS[b]
            /\ pickup = sim_time
            /\ DtLt(pickup, planned)
            /\ left \in 0..pct
            /\ 2 * Abs(left * 1000000 - dur.us * pct) <= pct
            /\ e.trip_distance_km \in 50..400
            /\ e.cargo_weight_ton \in 5..20
            /\ e.delivery_status = "Scheduled"

\* a 399 km trip in medium traffic has been generated: 7 h 49 min 24.705882 s
C4_Witness ==
    /\ pc = "returned"
    /\ fleet_event.trip_distance_km = 399
    /\ fleet_event.traffic_condition = "Medium"
    /\ DtSub(Parse(fleet_event.delivery_time), Parse(fleet_event.pickup_time))
          = [s |-> 28164, us |-> 705882]

\* --------------------------------------------- generate_truck_events alone
TruckDrawsFor(d) ==
    {[q EXCEPT !.tie = tt] :
        q \in QuietDraws \union AnomalyDraws(NumEvents(d) - 1), tt \in TieTapes}
TruckInputs ==
    {i @@ r @@ t :
        i \in {CHOOSE x \in IdDraws : TRUE},
        r \in RouteDraws(TripDistances, {CARGO_WEIGHT_MIN, 14, CARGO_WEIGHT_MAX}, {<<1, 2>>}),
        t \in UNION {TruckDrawsFor(d) : d \in TripDistances}}

InitTruck ==
    /\ pc = "call"
    /\ sim_time = SIMULATION_START_DATE
    /\ rnd \in TruckInputs
    /\ rnd.anomaly_point < NumEvents(rnd.trip_distance_km) - 1
    /\ fleet_event = generate_fleet_event(sim_time, rnd)
    /\ current_simulated_time = None /\ utcnow = None
    /\ truck_events = <<>> /\ actual_delivery_time = None
    /\ fleet_update = None /\ payloads = <<>> /\ max_size = 0 /\ sent = <<>>
    /\ raised = "none" /\ tick = 0 /\ published = <<>>

CallTruck ==
    /\ pc = "call"
    /\ LET res == generate_truck_events(fleet_event, rnd)
       IN  /\ truck_events' = res.events
           /\ actual_delivery_time' = res.actual_delivery_time
    /\ pc' = "returned"
    /\ UNCHANGED <<current_simulated_time, utcnow, rnd, sim_time, fleet_event,
                   fleet_update, payloads, max_size, sent, raised, tick, published>>

SpecTruck == InitTruck /\ [][CallTruck]_vars

EventTime(k) == Parse(truck_events[k].EventTimestamp)

\* C5: the telemetry sequence of a Delivery has n = max(2, trip_distance_km div 25)
\* samples, so at least 2; its timestamps strictly increase in sequence order, the
\* i-th of them (from 1) is pickup_time + (i/n) * (planned delivery_time -
\* pickup_time) to the microsecond, and all lie in [pickup_time, delivery_time].
C5_Timestamps ==
    pc = "returned" =>
        LET pickup == Parse(fleet_event.pickup_time)
            planned == Parse(fleet_event.delivery_time)
            dur == DtSub(planned, pickup)
            q == fleet_event.trip_distance_km \div 25
            n == IF q > 2 THEN q ELSE 2
        IN  /\ Len(truck_events) = n
            /\ Len(truck_events) >= 2
            /\ \A k \in 1..(n - 1) : DtLt(EventTime(k), EventTime(k + 1))
            /\ \A k \in 1..n :
                  LET off == DtSub(EventTime(k), pickup)
                      \* n * offset - k * duration, its whole seconds
                      a == n * off.s - k * dur.s
                  IN  /\ DtLe(pickup, EventTime(k))
                      /\ DtLe(EventTime(k), planned)
                      /\ a \in (-n)..n
                      /\ 2 * Abs(a * 1000000 + n * off.us - k * dur.us) <= n

\* a 16 sample sequence whose last timestamp is the planned delivery time and
\* whose first lies a sixteenth of the trip after the pickup
C5_Witness ==
    /\ pc = "returned"
    /\ Len(truck_events) = 16
    /\ EventTime(16) = Parse(fleet_event.delivery_time)
    /\ fleet_event.traffic_condition = "High"
    /\ DtSub(EventTime(1), Parse(fleet_event.pickup_time)) = [s |-> 2142, us |-> 857143]

\* C6: fuel_used and co2_emitted never decrease along the telemetry sequence, and
\* at the last sample they are the trip totals trip_distance_km / km_per_liter and
\* that times 2.68, rounded to 2 decimals, where km_per_liter = max(3.5 -
\* 0.05 * cargo_weight_ton - (1 if traffic is High), 1.5) is never below 1.5.
C6_Cumulative ==
    pc = "returned" =>
        LET n == Len(truck_events)
            raw == 70 - fleet_event.cargo_weight_ton
                      - (IF fleet_event.traffic_condition = "High" THEN 20 ELSE 0)
            \* km_per_liter in twentieths
            kpl == IF raw > 30 THEN raw ELSE 30
            km == fleet_event.trip_distance_km
            last == truck_events[n]
        IN  /\ \A k \in 1..(n - 1) :
                  /\ truck_events[k].fuel_used <= truck_events[k + 1].fuel_used
                  /\ truck_events[k].co2_emitted <= truck_events[k + 1].co2_emitted
            /\ kpl >= 30
            /\ KmPerLiterX20(fleet_event.cargo_weight_ton, fleet_event.traffic_condition) = kpl
            \* last.fuel_used / 100 = km / (kpl / 20), to the nearest hundredth
            /\ 2 * Abs(last.fuel_used * kpl - 2000 * km) <= kpl
            \* last.co2_emitted / 100 = 2.68 * km / (kpl / 20), to the nearest hundredth
            /\ 2 * Abs(last.co2_emitted * kpl - 5360 * km) <= kpl

\* 20 t in high traffic over 400 km: km_per_liter is at the floor 1.5, the totals
\* are 266.67 l and 714.67 kg
C6_Witness ==
    /\ pc = "returned"
    /\ fleet_event.cargo_weight_ton = 20
    /\ fleet_event.traffic_condition = "High"
    /\ fleet_event.trip_distance_km = 400
    /\ truck_events[Len(truck_events)].fuel_used = 26667
    /\ truck_events[Len(truck_events)].co2_emitted = 71467
    /\ truck_events[1].fuel_used = 1667

Alerts == {k \in 1..Len(truck_events) : truck_events[k].alert_type # "None"}

\* C7: at most one sample of a telemetry sequence has an alert_type; it is then
\* not the first sample (its index from 0 lies in 1..n-1), its alert_type is
\* Speeding or HighEngineTemp, a Speeding sample's speed lies in
\* [effective_speed + 20, effective_speed + 40] and a HighEngineTemp sample's
\* engine_temp in [105, 115]; every other sample has no alert_type.
C7_Anomaly ==
    pc = "returned" =>
        LET n == Len(truck_events)
            speed == (60 * TRAFFIC_CONDITIONS[fleet_event.traffic_condition]) \div 10
        IN  /\ Cardinality(Alerts) <= 1
            /\ \A k \in Alerts :
                  /\ k - 1 \in 1..(n - 1)
                  /\ truck_events[k].alert_type \in {"Speeding", "HighEngineTemp"}
                  /\ truck_events[k].alert_type = "Speeding" =>
                        /\ truck_events[k].speed >= speed + 200
                        /\ truck_events[k].speed <= speed + 400
                  /\ truck_events[k].alert_type = "HighEngineTemp" =>
                        /\ truck_events[k].engine_temp >= 1050
                        /\ truck_events[k].engine_temp <= 1150
            /\ \A k \in (1..n) \ Alerts : truck_events[k].alert_type = "None"

\* a Speeding alert at the last of 16 samples, at the top of its range
C7_Witness ==
    /\ pc = "returned"
    /\ Len(truck_events) = 16
    /\ Alerts = {16}
    /\ truck_events[16].alert_type = "Speeding"
    /\ truck_events[16].speed = EffectiveSpeedX10(fleet_event.traffic_condition) + 400

\* --------------------------------------- generate_fleet_update_event alone
\* actual delivery times around the planned one: what generate_truck_events
\* returns (the planned time -30..30 minutes) and the microsecond next to it
ActualOffsets ==
    { Minutes(-ADJUSTMENT_MINUTES), Minutes(-1), [s |-> -1, us |-> 999999], Minutes(0),
      [s |-> 0, us |-> 1], Minutes(1), Minutes(ADJUSTMENT_MINUTES) }
UpdateInputs ==
    {i @@ r @@ Quiet :
        i \in IdDraws,
        r \in RouteDraws(TripDistances, {CARGO_WEIGHT_MIN}, {<<1, 2>>})}

InitUpdate ==
    /\ pc = "call"
    /\ sim_time \in SimTimes
    /\ rnd \in UpdateInputs
    /\ fleet_event = generate_fleet_event(sim_time, rnd)
    /\ \E off \in ActualOffsets :
          actual_delivery_time =
              DtAdd(DtAdd(sim_time,
                          TimedeltaHours(rnd.trip_distance_km, EffectiveSpeedX10(rnd.traffic))),
                    off)
    /\ current_simulated_time = None /\ utcnow = None
    /\ truck_events = <<>> /\ fleet_update = None
    /\ payloads = <<>> /\ max_size = 0 /\ sent = <<>>
    /\ raised = "none" /\ tick = 0 /\ published = <<>>

CallUpdate ==
    /\ pc = "call"
    /\ fleet_update' = generate_fleet_update_event(fleet_event, actual_delivery_time)
    /\ pc' = "returned"
    /\ UNCHANGED <<current_simulated_time, utcnow, rnd, sim_time, fleet_event, truck_events,
                   actual_delivery_time, payloads, max_size, sent, raised, tick, published>>

SpecUpdate == InitUpdate /\ [][CallUpdate]_vars

\* ISO-8601 timestamps of one zone order as the instants they name
IsoLe(a, b) ==
    \/ a.date < b.date
    \/ a.date = b.date /\ a.time < b.time
    \/ a.date = b.date /\ a.time = b.time /\ a.us <= b.us

\* C8: the DeliveryUpdate generate_fleet_update_event returns carries the
\* Delivery's delivery_id and the actual delivery time it was given, and its
\* delivery_status is Completed if and only if that actual time is not later than
\* the Delivery's planned delivery_time, and Delayed otherwise; the Delivery is
\* after the call what generate_fleet_event made it.
C8_Resolve ==
    pc = "returned" =>
        /\ fleet_update.delivery_id = fleet_event.delivery_id
        /\ fleet_update.actual_delivery_time = AppendZ(Isoformat(actual_delivery_time))
        /\ fleet_update.delivery_status \in {"Completed", "Delayed"}
        /\ fleet_update.delivery_status = "Completed"
              <=> IsoLe(fleet_update.actual_delivery_time, fleet_event.delivery_time)
        /\ fleet_event = generate_fleet_event(sim_time, rnd)

\* a delivery that arrived at the very microsecond planned was resolved: Completed
C8_Witness ==
    /\ pc = "returned"
    /\ fleet_update.actual_delivery_time = fleet_event.delivery_time
    /\ fleet_update.delivery_status = "Completed"
    /\ fleet_event.delivery_time.us # 0

\* ------------------------------------------------ send_to_eventhub alone
PayloadPool ==
    { [event_type |-> "FleetUpdateEvent"],
      [event_type |-> "TruckTelemetry", delivery_id |-> <<"D", DELIVERY_NO_MIN>>],
      [event_type |-> "FleetEvent", delivery_id |-> <<"D", DELIVERY_NO_MIN>>,
       truck_id |-> TRUCK_ID_MIN] }
PayloadLists == UNION {[1..n -> PayloadPool] : n \in 0..MaxPayloads}

InitSend ==
    /\ pc = "call"
    /\ payloads \in PayloadLists
    /\ max_size \in 0..MaxBatchLimit
    /\ sent = <<>> /\ raised = "none"
    /\ current_simulated_time = None /\ utcnow = None /\ rnd = None /\ sim_time = None
    /\ fleet_event = None /\ truck_events = <<>> /\ actual_delivery_time = None
    /\ fleet_update = None /\ tick = 0 /\ published = <<>>

CallSend ==
    /\ pc = "call"
    /\ LET res == send_to_eventhub(payloads, max_size)
       IN  /\ sent' = res.sent
           /\ raised' = res.raised
    /\ pc' = "returned"
    /\ UNCHANGED <<current_simulated_time, utcnow, rnd, sim_time, fleet_event, truck_events,
                   actual_delivery_time, fleet_update, payloads, max_size, tick, published>>

SpecSend == InitSend /\ [][CallSend]_vars

RECURSIVE Concat(_)
Concat(batches) ==
    IF batches = <<>> THEN <<>> ELSE Head(batches) \o Concat(Tail(batches))

Delivered ==
    /\ raised = "none"
    /\ Concat(sent) = payloads
    /\ \A k \in 1..Len(sent) : sent[k] # <<>>

\* C10 as stated: for any batch size limit, an empty payload sequence sends
\* nothing, and a non-empty one is sent whole, in order, each payload in exactly
\* one batch, with no empty batch sent.
C10_AnyLimit ==
    pc = "returned" => IF payloads = <<>> THEN sent = <<>> ELSE Delivered

EachFits == \A k \in 1..Len(payloads) : EventDataSize(payloads[k]) <= max_size

\* C10 amended: an empty payload sequence sends nothing; a non-empty one each of
\* whose payloads fits an empty batch is sent whole, in order, each payload in
\* exactly one batch, with no empty batch sent.
C10_FittingLimit ==
    pc = "returned" =>
        IF payloads = <<>> THEN sent = <<>> /\ raised = "none"
        ELSE EachFits => Delivered

\* four payloads went out in three batches, the second batch holding two
C10_Witness ==
    /\ pc = "returned"
    /\ Len(payloads) = 4 /\ EachFits
    /\ Len(sent) = 3 /\ Len(sent[2]) = 2
    /\ raised = "none"

\* ------------------------------------------------------------------ main
\* three deliveries the random module may produce in a tick: a short quiet trip,
\* a trip with a Speeding alert that arrives late, a longer trip in medium traffic
DriverDraws ==
    LET lo == CHOOSE x \in IdDraws : x.delivery_no = DELIVERY_NO_MIN
        hi == CHOOSE x \in IdDraws : x.delivery_no = DELIVERY_NO_MAX
        alert == CHOOSE x \in AnomalyDraws(2) :
                    x.anomaly_type = "Speeding" /\ x.anomaly_point = 1 /\ x.uniform = 1
    IN  { lo @@ [trip_distance_km |-> TRIP_DISTANCE_MIN, cargo_weight_ton |-> CARGO_WEIGHT_MIN,
                 locations |-> <<1, 2>>, traffic |-> "Low"]
             @@ [Quiet EXCEPT !.adjustment = -ADJUSTMENT_MINUTES],
          lo @@ [trip_distance_km |-> 3 * SAMPLE_INTERVAL_KM, cargo_weight_ton |-> CARGO_WEIGHT_MAX,
                 locations |-> <<10, 1>>, traffic |-> "High"]
             @@ [alert EXCEPT !.adjustment = ADJUSTMENT_MINUTES, !.time_jump = TIME_JUMP_MAX],
          hi @@ [trip_distance_km |-> 4 * SAMPLE_INTERVAL_KM, cargo_weight_ton |-> CARGO_WEIGHT_MIN,
                 locations |-> <<5, 4>>, traffic |-> "Medium"]
             @@ [Quiet EXCEPT !.tie = <<TRUE>>,
                              !.time_jump = (TIME_JUMP_MIN + TIME_JUMP_MAX) \div 2] }

\* minutes the cursor is ahead of SIMULATION_START_DATE when the model starts to
\* look at the run: 0 (main is entered), or up to MaxBacklog largest jumps short
\* of the 30 days
CursorOffsets ==
    {0} \union {LOOKBACK_DAYS * 1440 - b * TIME_JUMP_MAX : b \in 0..MaxBacklog}
\* the least number of ticks that bring the cursor m minutes ahead
TicksFor(m) == (m + TIME_JUMP_MAX - 1) \div TIME_JUMP_MAX
\* the wall clock time one time.sleep(5) and the tick after it take: the 5
\* seconds, or a stall longer than any jump of the cursor
SleepElapsed ==
    { [s |-> SLEEP_SECONDS, us |-> 0],
      [s |-> SLEEP_SECONDS + 60 * (TIME_JUMP_MAX + TIME_JUMP_MIN), us |-> 250000] }
\* size limits of the producers' batches: a FleetEvent just fits, or all of a trip fits
DriverBatchLimits ==
    LET one == EventDataSize(generate_fleet_event(SIMULATION_START_DATE,
                                                  CHOOSE r \in DriverDraws : TRUE))
    IN  {one, 4 * one}

Init ==
    /\ pc = "loop"
    /\ \E m \in CursorOffsets :
          /\ current_simulated_time = DtAdd(SIMULATION_START_DATE, Minutes(m))
          /\ utcnow = DtAdd(ImportTime, [s |-> SLEEP_SECONDS * TicksFor(m), us |-> 0])
    /\ max_size \in DriverBatchLimits
    /\ rnd = None /\ sim_time = None /\ fleet_event = None /\ truck_events = <<>>
    /\ actual_delivery_time = None /\ fleet_update = None
    /\ payloads = <<>> /\ sent = <<>> /\ raised = "none"
    /\ tick = 0 /\ published = <<>>

\* faulty variant: the cursor is never reset
ResetClockNever(cursor, now) == cursor

\* lines 120-122
ResetClock(cursor, now) == IF DtLt(now, cursor) THEN SIMULATION_START_DATE ELSE cursor

\* what a hub receives of a batch: of each payload its event_type and delivery_id
Wire(batches) ==
    [b \in 1..Len(batches) |->
        [k \in 1..Len(batches[b]) |->
            <<batches[b][k].event_type, batches[b][k].delivery_id>>]]

\* send_to_eventhub(producer, ps) as main calls it, and where main goes on
Publish(hub, ps, next) ==
    LET res == send_to_eventhub(ps, max_size)
    IN  /\ payloads' = ps
        /\ sent' = res.sent
        /\ published' = Append(published, [tick |-> tick', hub |-> hub, batches |-> Wire(res.sent)])
        /\ raised' = res.raised
        /\ pc' = IF res.raised = "none" THEN next ELSE "crashed"

\* lines 120-127: the clock check, generate_fleet_event, the first publish
StartTick ==
    /\ pc = "loop"
    /\ tick < MaxTicks
    /\ tick' = tick + 1
    /\ \E r \in DriverDraws : rnd' = r
    /\ current_simulated_time' = ResetClock(current_simulated_time, utcnow)
    /\ sim_time' = current_simulated_time'
    /\ fleet_event' = generate_fleet_event(sim_time', rnd')
    /\ Publish("fleet_data", <<fleet_event'>>, "truck")
    /\ UNCHANGED <<utcnow, truck_events, actual_delivery_time, fleet_update, max_size>>

\* lines 129-134
SendTelemetry ==
    /\ pc = "truck"
    /\ LET res == generate_truck_events(fleet_event, rnd)
       IN  /\ truck_events' = res.events
           /\ actual_delivery_time' = res.actual_delivery_time
    /\ tick' = tick
    /\ Publish("truck_data", truck_events', "update")
    /\ UNCHANGED <<current_simulated_time, utcnow, rnd, sim_time, fleet_event,
                   fleet_update, max_size>>

\* faulty variant: the DeliveryUpdate is generated and not published
SendUpdateNotPublished ==
    /\ pc = "update"
    /\ fleet_update' = generate_fleet_update_event(fleet_event, actual_delivery_time)
    /\ pc' = "advance"
    /\ UNCHANGED <<current_simulated_time, utcnow, rnd, sim_time, fleet_event,
                   truck_events, actual_delivery_time, max_size, payloads, sent,
                   published, raised, tick>>

\* lines 136-138
SendUpdate ==
    /\ pc = "update"
    /\ fleet_update' = generate_fleet_update_event(fleet_event, actual_delivery_time)
    /\ tick' = tick
    /\ Publish("fleet_data", <<fleet_update'>>, "advance")
    /\ UNCHANGED <<current_simulated_time, utcnow, rnd, sim_time, fleet_event,
                   truck_events, actual_delivery_time, max_size>>

\* lines 140-141
AdvanceClock ==
    /\ pc = "advance"
    /\ current_simulated_time' = DtAdd(current_simulated_time, Minutes(rnd.time_jump))
    /\ pc' = "sleep"
    /\ UNCHANGED <<utcnow, rnd, sim_time, fleet_event, truck_events, actual_delivery_time,
                   fleet_update, payloads, max_size, sent, raised, tick, published>>

\* line 142
Sleep ==
    /\ pc = "sleep"
    /\ \E e \in SleepElapsed : utcnow' = DtAdd(utcnow, e)
    /\ pc' = "loop"
    /\ UNCHANGED <<current_simulated_time, rnd, sim_time, fleet_event, truck_events,
                   actual_delivery_time, fleet_update, payloads, max_size, sent, raised,
                   tick, published>>

\* lines 144-152: SIGINT raises KeyboardInterrupt in the main thread between any
\* two bytecodes of main, or out of time.sleep; nothing in main masks it
KeyboardInterrupt ==
    /\ pc \in {"loop", "truck", "update", "advance", "sleep"}
    /\ pc' = "stopped"
    /\ raised' = "KeyboardInterrupt"
    /\ UNCHANGED <<current_simulated_time, utcnow, rnd, sim_time, fleet_event, truck_events,
                   actual_delivery_time, fleet_update, payloads, max_size, sent, tick,
                   published>>

Next ==
    \/ StartTick
    \/ SendTelemetry
    \/ SendUpdate
    \/ AdvanceClock
    \/ Sleep
    \/ KeyboardInterrupt

Spec == Init /\ [][Next]_vars

\* the stream and the kind of the k-th publish of a tick
TickPlan ==
    << [hub |-> "fleet_data", event_type |-> "FleetEvent"],
       [hub |-> "truck_data", event_type |-> "TruckTelemetry"],
       [hub |-> "fleet_data", event_type |-> "FleetUpdateEvent"] >>

DeliveryIdOf(k) == published[k].batches[1][1][2]

\* the publishes so far are those of whole ticks, each the Delivery, then the
\* telemetry of that Delivery, then its DeliveryUpdate, followed by the first
\* publishes of the tick under way
InTickOrder ==
    /\ \A k \in 1..Len(published) :
          LET plan == TickPlan[((k - 1) % 3) + 1]
              first == 3 * ((k - 1) \div 3) + 1
          IN  /\ published[k].tick = ((k - 1) \div 3) + 1
              /\ published[k].hub = plan.hub
              /\ published[k].batches # <<>>
              /\ plan.hub = "fleet_data" => Len(published[k].batches) = 1
                                            /\ Len(published[k].batches[1]) = 1
              /\ \A b \in 1..Len(published[k].batches) :
                    \A j \in 1..Len(published[k].batches[b]) :
                        /\ published[k].batches[b][j][1] = plan.event_type
                        /\ published[k].batches[b][j][2] = DeliveryIdOf(first)
                        /\ published[k].tick = tick =>
                              published[k].batches[b][j][2] = fleet_event.delivery_id
    /\ pc = "truck" => Len(published) = 3 * tick - 2
    /\ pc = "update" => Len(published) = 3 * tick - 1
    /\ pc \in {"advance", "sleep", "loop"} => Len(published) = 3 * tick
    /\ pc = "stopped" => Len(published) <= 3 * tick /\ 3 * tick - 2 <= Len(published)

\* the cursor is written by the clock check that opens a tick and by the advance
\* that follows the tick's third publish, and by nothing else
CursorStep ==
    current_simulated_time' # current_simulated_time =>
        \/ /\ pc = "advance" /\ pc' = "sleep"
           /\ Len(published) = 3 * tick /\ published' = published
           /\ DtLe(DtAdd(current_simulated_time, Minutes(30)), current_simulated_time')
           /\ DtLe(current_simulated_time', DtAdd(current_simulated_time, Minutes(300)))
        \/ /\ pc = "loop" /\ current_simulated_time' = SIMULATION_START_DATE

\* C1: every tick of main publishes three times, in the order the Delivery to the
\* fleet stream, that Delivery's telemetry to the truck stream, that Delivery's
\* DeliveryUpdate to the fleet stream; the cursor advances only after the third;
\* no publish of a tick comes before the third publish of the tick before it, and
\* the cursor is written by main's clock check and advance alone.  A tick that
\* KeyboardInterrupt cuts short has made the first or the first two of the three
\* publishes and does not advance the cursor; whether it may be cut short is C3.
C1_TickOrder == [](InTickOrder) /\ [][CursorStep]_vars

\* the second tick has made its three publishes, its telemetry in three batches
C1_Witness ==
    /\ pc = "advance"
    /\ tick = 2
    /\ Len(published) = 6
    /\ Len(published[5].batches) = 3
    /\ published[6].batches[1][1] = <<"FleetUpdateEvent", fleet_event.delivery_id>>

\* C2: the Delivery of a tick is generated at the cursor as the clock check of the
\* tick left it, which is not ahead of the wall clock read by that check: the
\* pickup_time of the Delivery is never later than that reading.
C2_Trailing ==
    pc \in {"truck", "update", "advance"} =>
        /\ Parse(fleet_event.pickup_time) = sim_time
        /\ DtLe(Parse(fleet_event.pickup_time), utcnow)
        /\ pc # "advance" => sim_time = current_simulated_time

\* the cursor had run ahead of the wall clock and a later tick generated its
\* Delivery at SIMULATION_START_DATE again
C2_Witness ==
    /\ pc = "truck"
    /\ tick > 1
    /\ Parse(fleet_event.pickup_time) = SIMULATION_START_DATE
    /\ DtLt(SIMULATION_START_DATE, utcnow)

\* C3 as stated: when the driver has stopped on KeyboardInterrupt, every tick that
\* published its Delivery also attempted its telemetry and its DeliveryUpdate.
C3_StopAtBoundary ==
    pc = "stopped" => Len(published) = 3 * tick

\* C9 as stated: the Deliveries of two different ticks never carry the same
\* delivery_id.
C9_UniqueIds ==
    \A j, k \in 1..Len(published) :
        published[j].tick # published[k].tick => DeliveryIdOf(j) # DeliveryIdOf(k)

====
